---- MODULE Spec2Model ----
(***************************************************************************)
(* Model of the htp time-expression parser (src/parser.rs).                *)
(*                                                                         *)
(* Text is modelled by TLA+ strings, read character by character with      *)
(* SubSeq.  Numbers are modelled by canonical decimal numerals (strings of *)
(* digits without leading zeros, "-" in front of a negative one), because  *)
(* the widths that matter here (u32, i32, usize) do not fit the model      *)
(* checker's integers; the arithmetic of str::parse is done on numerals.   *)
(***************************************************************************)
EXTENDS Integers, Sequences, FiniteSets, TLC

VARIABLES
    pc,      \* "idle" before the call, "done" after it
    via,     \* "str": parse_time_clue_from_str was called; "pairs": parse_time_clue
    words,   \* the tokens the input string was written with (via = "str")
    input,   \* the input string (via = "str")
    pairs,   \* the production sequence handed to the reducer
    result   \* the Result returned

vars == <<pc, via, words, input, pairs, result>>

(***************************************************************************)
(* Characters and numerals                                                 *)
(***************************************************************************)
Digits == "0123456789"

CharAt(s, i) == SubSeq(s, i, i)

IsDigit(c) == \E d \in 1..10 : CharAt(Digits, d) = c

DigitVal(c) == (CHOOSE d \in 1..10 : CharAt(Digits, d) = c) - 1

AllDigits(s) == \A i \in 1..Len(s) : IsDigit(CharAt(s, i))

\* The numeral of the value of a non-empty digit string: leading zeros dropped.
RECURSIVE Canon(_)
Canon(s) ==
    IF Len(s) > 1 /\ CharAt(s, 1) = "0" THEN Canon(Tail(s)) ELSE s

\* a < b for canonical unsigned numerals.
RECURSIVE DecLess(_, _)
DecLess(a, b) ==
    IF Len(a) # Len(b) THEN Len(a) < Len(b)
    ELSE IF Len(a) = 0 THEN FALSE
    ELSE IF CharAt(a, 1) # CharAt(b, 1)
         THEN DigitVal(CharAt(a, 1)) < DigitVal(CharAt(b, 1))
         ELSE DecLess(Tail(a), Tail(b))

DecLeq(a, b) == a = b \/ DecLess(a, b)

(***************************************************************************)
(* Result values                                                           *)
(***************************************************************************)
Ok(v) == [ok |-> TRUE, val |-> v]

Err(kind, text) == [ok |-> FALSE, val |-> [kind |-> kind, text |-> text]]

ParseInt(detail) == Err("ParseInt", detail)

UnexpectedNonMatchingPattern == Err("UnexpectedNonMatchingPattern", "")

None == <<>>

Some(x) == <<x>>

(***************************************************************************)
(* Integer widths of the numeric fields                                    *)
(***************************************************************************)
U32Max == "4294967295"

I32Max == "2147483647"

I32MinAbs == "2147483648"

UsizeMax == "18446744073709551615"

\* str::parse for an unsigned type of maximum max: an optional "+", then
\* digits accumulated by checked multiply-and-add.
ParseUnsigned(s, max) ==
    LET body == IF Len(s) > 0 /\ CharAt(s, 1) = "+" THEN Tail(s) ELSE s
    IN  IF Len(s) = 0 THEN ParseInt("Empty")
        ELSE IF Len(body) = 0 \/ ~AllDigits(body) THEN ParseInt("InvalidDigit")
        ELSE IF DecLeq(Canon(body), max) THEN Ok(Canon(body))
        ELSE ParseInt("PosOverflow")

\* ParseU32 as it would be if the digits were read at the machine word's width
\* and the value then stored in the narrower field
ParseU32_wide(s) == ParseUnsigned(s, UsizeMax)

ParseU32(s) == ParseUnsigned(s, U32Max)

ParseUsize(s) == ParseUnsigned(s, UsizeMax)

\* str::parse for i32: an optional sign, then digits.
ParseI32(s) ==
    LET neg  == Len(s) > 0 /\ CharAt(s, 1) = "-"
        sign == Len(s) > 0 /\ CharAt(s, 1) \in {"+", "-"}
        body == IF sign THEN Tail(s) ELSE s
    IN  IF Len(s) = 0 THEN ParseInt("Empty")
        ELSE IF Len(body) = 0 \/ ~AllDigits(body) THEN ParseInt("InvalidDigit")
        ELSE IF neg
             THEN IF DecLeq(Canon(body), I32MinAbs)
                  THEN Ok(IF Canon(body) = "0" THEN "0" ELSE "-" \o Canon(body))
                  ELSE ParseInt("NegOverflow")
             ELSE IF DecLeq(Canon(body), I32Max) THEN Ok(Canon(body))
                  ELSE ParseInt("PosOverflow")

(***************************************************************************)
(* Enumerated-value conversions                                            *)
(***************************************************************************)
WeekdayNames ==
    {"monday", "tuesday", "wednesday", "thursday", "friday", "saturday", "sunday"}

weekday_from(s) ==
    CASE s = "monday"    -> Ok("Mon")
      [] s = "tuesday"   -> Ok("Tue")
      [] s = "wednesday" -> Ok("Wed")
      [] s = "thursday"  -> Ok("Thu")
      [] s = "friday"    -> Ok("Fri")
      [] s = "saturday"  -> Ok("Sat")
      [] s = "sunday"    -> Ok("Sun")
      [] OTHER           -> Err("UnknownWeekday", s)

shortcut_day_from(s) ==
    CASE s = "today"     -> Ok("Today")
      [] s = "yesterday" -> Ok("Yesterday")
      [] OTHER           -> Err("UnknownShortcutDay", s)

\* modifier_from as it would be if an unknown name fell back to a guess
modifier_from_guess(s) ==
    CASE s = "last" -> Ok("Last")
      [] OTHER      -> Ok("Next")

modifier_from(s) ==
    CASE s = "last" -> Ok("Last")
      [] s = "next" -> Ok("Next")
      [] OTHER      -> Err("UnknownModifier", s)

quantifier_from(s) ==
    CASE s = "min"  -> Ok("Min")
      [] s = "days" -> Ok("Days")
      [] OTHER      -> Err("UnknownQuantifier", s)

(***************************************************************************)
(* Descriptors                                                             *)
(***************************************************************************)
Now == [variant |-> "Now"]

Time(hms) == [variant |-> "Time", hms |-> hms]

Relative(n, q) == [variant |-> "Relative", n |-> n, q |-> q]

RelativeDayAt(m, w, t) == [variant |-> "RelativeDayAt", m |-> m, w |-> w, time |-> t]

SameWeekDayAt(w, t) == [variant |-> "SameWeekDayAt", w |-> w, time |-> t]

ShortcutDayAt(r, t) == [variant |-> "ShortcutDayAt", r |-> r, time |-> t]

ISO(ymd, hms) == [variant |-> "ISO", ymd |-> ymd, hms |-> hms]

(***************************************************************************)
(* The reducer                                                             *)
(***************************************************************************)
Pair(rule, str) == [rule |-> rule, str |-> str]

IsRules(ps, rules) ==
    /\ Len(ps) = Len(rules)
    /\ \A i \in 1..Len(rules) : ps[i].rule = rules[i]

StartsWithRules(ps, rules) ==
    /\ Len(ps) >= Len(rules)
    /\ \A i \in 1..Len(rules) : ps[i].rule = rules[i]

\* parse_time_hms as it would be if the two-field case filled the wrong slot
parse_time_hms_slot(rs) ==
    IF IsRules(rs, <<"hms">>) THEN
        LET h == ParseU32(rs[1].str)
        IN  IF ~h.ok THEN h ELSE Ok(Time(<<h.val, "0", "0">>))
    ELSE IF IsRules(rs, <<"hms", "hms">>) THEN
        LET h == ParseU32(rs[1].str)
            m == ParseU32(rs[2].str)
        IN  IF ~h.ok THEN h
            ELSE IF ~m.ok THEN m
            ELSE Ok(Time(<<h.val, "0", m.val>>))
    ELSE IF IsRules(rs, <<"hms", "hms", "hms">>) THEN
        LET h == ParseU32(rs[1].str)
            m == ParseU32(rs[2].str)
            s == ParseU32(rs[3].str)
        IN  IF ~h.ok THEN h
            ELSE IF ~m.ok THEN m
            ELSE IF ~s.ok THEN s
            ELSE Ok(Time(<<h.val, m.val, s.val>>))
    ELSE UnexpectedNonMatchingPattern

parse_time_hms(rs) ==
    IF IsRules(rs, <<"hms">>) THEN
        LET h == ParseU32(rs[1].str)
        IN  IF ~h.ok THEN h ELSE Ok(Time(<<h.val, "0", "0">>))
    ELSE IF IsRules(rs, <<"hms", "hms">>) THEN
        LET h == ParseU32(rs[1].str)
            m == ParseU32(rs[2].str)
        IN  IF ~h.ok THEN h
            ELSE IF ~m.ok THEN m
            ELSE Ok(Time(<<h.val, m.val, "0">>))
    ELSE IF IsRules(rs, <<"hms", "hms", "hms">>) THEN
        LET h == ParseU32(rs[1].str)
            m == ParseU32(rs[2].str)
            s == ParseU32(rs[3].str)
        IN  IF ~h.ok THEN h
            ELSE IF ~m.ok THEN m
            ELSE IF ~s.ok THEN s
            ELSE Ok(Time(<<h.val, m.val, s.val>>))
    ELSE UnexpectedNonMatchingPattern

\* time_maybe as it would be if the time of the sub-phrase were dropped
time_maybe_dropped(t) == None

\* match parse_time_hms(time_hms)? { TimeClue::Time(hms) => Some(hms), _ => None }
time_maybe(t) == IF t.val.variant = "Time" THEN Some(t.val.hms) ELSE None

parse_mday(mday) ==
    IF StartsWithRules(mday, <<"modifier", "weekday", "time">>) THEN
        LET t == parse_time_hms(SubSeq(mday, 4, Len(mday)))
            m == modifier_from(mday[1].str)
            w == weekday_from(mday[2].str)
        IN  IF ~t.ok THEN t
            ELSE IF ~m.ok THEN m
            ELSE IF ~w.ok THEN w
            ELSE Ok(RelativeDayAt(m.val, w.val, time_maybe(t)))
    ELSE IF IsRules(mday, <<"modifier", "weekday">>) THEN
        LET m == modifier_from(mday[1].str)
            w == weekday_from(mday[2].str)
        IN  IF ~m.ok THEN m
            ELSE IF ~w.ok THEN w
            ELSE Ok(RelativeDayAt(m.val, w.val, None))
    ELSE IF StartsWithRules(mday, <<"weekday", "time">>) THEN
        LET t == parse_time_hms(SubSeq(mday, 3, Len(mday)))
            w == weekday_from(mday[1].str)
        IN  IF ~t.ok THEN t
            ELSE IF ~w.ok THEN w
            ELSE Ok(SameWeekDayAt(w.val, time_maybe(t)))
    ELSE IF StartsWithRules(mday, <<"shortcut_day", "time">>) THEN
        LET t == parse_time_hms(SubSeq(mday, 3, Len(mday)))
            r == shortcut_day_from(mday[1].str)
        IN  IF ~t.ok THEN t
            ELSE IF ~r.ok THEN r
            ELSE Ok(ShortcutDayAt(r.val, time_maybe(t)))
    ELSE IF IsRules(mday, <<"shortcut_day">>) THEN
        LET r == shortcut_day_from(mday[1].str)
        IN  IF ~r.ok THEN r ELSE Ok(ShortcutDayAt(r.val, None))
    ELSE UnexpectedNonMatchingPattern

\* parse_relative as it would be if the unit were cut out of the text of the
\* whole relative phrase (between the count and the trailing "ago")
parse_relative_span(ps) ==
    LET n == ParseUsize(ps[3].str)
        q == quantifier_from(SubSeq(ps[2].str, Len(ps[3].str) + 1, Len(ps[2].str) - 3))
    IN  IF ~n.ok THEN n
        ELSE IF ~q.ok THEN q
        ELSE Ok(Relative(n.val, q.val))

\* parse_relative as it would be if the unit were converted before the count
parse_relative_unit_first(ps) ==
    LET n == ParseUsize(ps[3].str)
        q == quantifier_from(ps[4].str)
    IN  IF ~q.ok THEN q
        ELSE IF ~n.ok THEN n
        ELSE Ok(Relative(n.val, q.val))

parse_relative(ps) ==
    LET n == ParseUsize(ps[3].str)
        q == quantifier_from(ps[4].str)
    IN  IF ~n.ok THEN n
        ELSE IF ~q.ok THEN q
        ELSE Ok(Relative(n.val, q.val))

\* parse_iso as it would be if month and day changed places
parse_iso_swapped(ps) ==
    LET t == parse_time_hms(SubSeq(ps, 7, Len(ps) - 1))
        y == ParseI32(ps[3].str)
        m == ParseU32(ps[4].str)
        d == ParseU32(ps[5].str)
    IN  IF ~t.ok THEN t
        ELSE IF t.val.variant # "Time" THEN UnexpectedNonMatchingPattern
        ELSE IF ~y.ok THEN y
        ELSE IF ~m.ok THEN m
        ELSE IF ~d.ok THEN d
        ELSE Ok(ISO(<<y.val, d.val, m.val>>, t.val.hms))

parse_iso(ps) ==
    LET t == parse_time_hms(SubSeq(ps, 7, Len(ps) - 1))
        y == ParseI32(ps[3].str)
        m == ParseU32(ps[4].str)
        d == ParseU32(ps[5].str)
    IN  IF ~t.ok THEN t
        ELSE IF t.val.variant # "Time" THEN UnexpectedNonMatchingPattern
        ELSE IF ~y.ok THEN y
        ELSE IF ~m.ok THEN m
        ELSE IF ~d.ok THEN d
        ELSE Ok(ISO(<<y.val, m.val, d.val>>, t.val.hms))

EndsWithEOI(ps) == Len(ps) > 0 /\ ps[Len(ps)].rule = "EOI"

parse_time_clue(ps) ==
    IF IsRules(ps, <<"time_clue", "now", "EOI">>) THEN Ok(Now)
    ELSE IF Len(ps) >= 3 /\ StartsWithRules(ps, <<"time_clue", "time">>) /\ EndsWithEOI(ps)
    THEN parse_time_hms(SubSeq(ps, 3, Len(ps) - 1))
    ELSE IF IsRules(ps, <<"time_clue", "relative", "int", "quantifier", "EOI">>)
    THEN parse_relative(ps)
    ELSE IF Len(ps) >= 4 /\ StartsWithRules(ps, <<"time_clue", "day_at", "mday">>)
            /\ EndsWithEOI(ps)
    THEN parse_mday(SubSeq(ps, 4, Len(ps) - 1))
    ELSE IF Len(ps) >= 7
            /\ StartsWithRules(ps, <<"time_clue", "iso", "year", "month", "day", "time">>)
            /\ EndsWithEOI(ps)
    THEN parse_iso(ps)
    ELSE UnexpectedNonMatchingPattern

(***************************************************************************)
(* The grammar (time.pest is not part of the sources; the productions are  *)
(* those of section 4.1 of the specification, read as a PEG: ordered       *)
(* choice, greedy options, optional spaces between the elements of a       *)
(* sequence).  A match is the flattened list of (rule, matched text)       *)
(* pairs; the text of a composite rule is the whole span it matched, inner *)
(* spaces included.                                                        *)
(***************************************************************************)
Expr(op, text, args) == [op |-> op, text |-> text, args |-> args]

Literal(t) == Expr("lit", t, <<>>)

DigitRun == Expr("digits", "", <<>>)

Rule(name, body) == Expr("rule", name, <<body>>)

Sequence(es) == Expr("seq", "", es)

Choice(es) == Expr("choice", "", es)

Opt(e) == Expr("opt", "", <<e>>)

SOI == Expr("soi", "", <<>>)

EOI == Expr("eoi", "", <<>>)

G_hms == Rule("hms", DigitRun)

G_time ==
    Rule("time", Sequence(<<G_hms, Opt(Sequence(<<Literal(":"), G_hms,
                                        Opt(Sequence(<<Literal(":"), G_hms>>))>>))>>))

G_weekday ==
    Rule("weekday", Choice(<<Literal("monday"), Literal("tuesday"), Literal("wednesday"),
                             Literal("thursday"), Literal("friday"), Literal("saturday"),
                             Literal("sunday")>>))

G_shortcut_day == Rule("shortcut_day", Choice(<<Literal("today"), Literal("yesterday")>>))

G_modifier == Rule("modifier", Choice(<<Literal("last"), Literal("next")>>))

G_quantifier == Rule("quantifier", Choice(<<Literal("min"), Literal("days")>>))

G_relative == Rule("relative", Sequence(<<Rule("int", DigitRun), G_quantifier, Literal("ago")>>))

G_mday == Rule("mday", Choice(<<Sequence(<<G_modifier, G_weekday>>), G_weekday, G_shortcut_day>>))

G_day_at == Rule("day_at", Sequence(<<G_mday, Opt(Sequence(<<Literal("at"), G_time>>))>>))

G_iso ==
    Rule("iso", Sequence(<<Rule("year", DigitRun), Literal("-"), Rule("month", DigitRun),
                      Literal("-"), Rule("day", DigitRun), Literal("at"), G_time>>))

G_now == Rule("now", Literal("now"))

G_time_clue ==
    Rule("time_clue",
         Sequence(<<SOI, Choice(<<G_iso, G_relative, G_day_at, G_time, G_now>>), EOI>>))

Fail == [ok |-> FALSE, pos |-> 0, pairs |-> <<>>]

Hit(pos, ps) == [ok |-> TRUE, pos |-> pos, pairs |-> ps]

Span(s, i, j) == IF j > i THEN SubSeq(s, i, j - 1) ELSE ""

RECURSIVE SkipWs(_, _)
SkipWs(s, i) ==
    IF i <= Len(s) /\ CharAt(s, i) = " " THEN SkipWs(s, i + 1) ELSE i

RECURSIVE DigitsEnd(_, _)
DigitsEnd(s, i) ==
    IF i <= Len(s) /\ IsDigit(CharAt(s, i)) THEN DigitsEnd(s, i + 1) ELSE i

\* The match of expression e in s at position i.
RECURSIVE Match(_, _, _)
RECURSIVE MatchSeq(_, _, _, _)
RECURSIVE MatchChoice(_, _, _)

Match(e, s, i) ==
    CASE e.op = "lit" ->
            IF i + Len(e.text) - 1 <= Len(s) /\ Span(s, i, i + Len(e.text)) = e.text
            THEN Hit(i + Len(e.text), <<>>) ELSE Fail
      [] e.op = "digits" ->
            IF DigitsEnd(s, i) > i THEN Hit(DigitsEnd(s, i), <<>>) ELSE Fail
      [] e.op = "soi" -> IF i = 1 THEN Hit(i, <<>>) ELSE Fail
      [] e.op = "eoi" -> IF i = Len(s) + 1 THEN Hit(i, <<Pair("EOI", "")>>) ELSE Fail
      [] e.op = "opt" ->
            LET r == Match(e.args[1], s, i) IN IF r.ok THEN r ELSE Hit(i, <<>>)
      [] e.op = "rule" ->
            LET r == Match(e.args[1], s, i)
            IN  IF r.ok THEN Hit(r.pos, <<Pair(e.text, Span(s, i, r.pos))>> \o r.pairs)
                ELSE Fail
      [] e.op = "choice" -> MatchChoice(e.args, s, i)
      [] e.op = "seq" -> MatchSeq(e.args, s, i, <<>>)

\* the first alternative that matches
MatchChoice(es, s, i) ==
    IF es = <<>> THEN Fail
    ELSE LET r == Match(Head(es), s, i)
         IN  IF r.ok THEN r ELSE MatchChoice(Tail(es), s, i)

\* the elements one after the other, spaces skipped between them; acc holds
\* the pairs matched so far
MatchSeq(es, s, i, acc) ==
    LET r == Match(Head(es), s, i)
    IN  IF ~r.ok THEN Fail
        ELSE IF Len(es) = 1 THEN Hit(r.pos, acc \o r.pairs)
        ELSE MatchSeq(Tail(es), s, SkipWs(s, r.pos), acc \o r.pairs)

\* TimeParser::parse(Rule::time_clue, s), flattened
TimeParser_parse(s) == Match(G_time_clue, s, 1)

PestError == Err("PestError", "")

parse_time_clue_from_str(s) ==
    LET parsed == TimeParser_parse(s)
    IN  IF parsed.ok THEN parse_time_clue(parsed.pairs) ELSE PestError

(***************************************************************************)
(* Bounds                                                                  *)
(***************************************************************************)
\* longest run of spaces written between two tokens
MaxGap == 2

\* largest number of hms fields written after a time
MaxHms == 4

(***************************************************************************)
(* Input strings: a phrase written as tokens, with spaces between them     *)
(***************************************************************************)
RECURSIVE Spaces(_)
Spaces(n) == IF n = 0 THEN "" ELSE " " \o Spaces(n - 1)

\* The spaces written after token k (before the first token for k = 0): g
\* between tokens, none at the two ends, and g2 at the one place p.
GapAt(k, n, g, p, g2) ==
    IF k = p THEN g2 ELSE IF k = 0 \/ k = n THEN 0 ELSE g

RECURSIVE JoinFrom(_, _, _, _, _)
JoinFrom(ws, k, g, p, g2) ==
    IF k > Len(ws) THEN ""
    ELSE ws[k] \o Spaces(GapAt(k, Len(ws), g, p, g2)) \o JoinFrom(ws, k + 1, g, p, g2)

Join(ws, g, p, g2) == Spaces(GapAt(0, Len(ws), g, p, g2)) \o JoinFrom(ws, 1, g, p, g2)

\* all sequences of 1..n fields drawn from pool
RECURSIVE FieldSeqs(_, _)
FieldSeqs(pool, n) ==
    IF n = 0 THEN {}
    ELSE {<<f>> : f \in pool}
         \cup {<<f>> \o r : f \in pool, r \in FieldSeqs(pool, n - 1)}

RECURSIVE TimeWords(_)
TimeWords(fs) ==
    IF Len(fs) = 1 THEN fs ELSE <<Head(fs), ":">> \o TimeWords(Tail(fs))

HmsPool == {"9", "030"}

IntPool == {"2", "007", "18446744073709551615", "18446744073709551616"}

NowPhrases == {<<"now">>}

TimePhrases ==
    {TimeWords(fs) : fs \in FieldSeqs(HmsPool, MaxHms)
                            \cup {<<"4294967296">>, <<"9", "4294967296">>}}

RelativePhrases ==
    {<<n, q, "ago">> : n \in IntPool, q \in {"min", "days", "hours"}}

DayHeads ==
    {<<m, w>> : m \in {"last", "next"}, w \in WeekdayNames \cup {"someday"}}
    \cup {<<w>> : w \in WeekdayNames \cup {"Friday"}}
    \cup {<<"today">>, <<"yesterday">>, <<"tomorrow">>}

\* the fields written after "at": the first k of 7:43:4294967295:7:..., or one
\* field too large for its width
AtField(k) == <<"7", "43", "4294967295">>[((k - 1) % 3) + 1]

AtFields ==
    {[k \in 1..n |-> AtField(k)] : n \in 1..MaxHms} \cup {<<"4294967296">>}

AtPhrases == {<<"at">> \o TimeWords(fs) : fs \in AtFields}

\* every head alone and with "at 7"; a few heads with every time
DayPhrases ==
    {h \o a : h \in DayHeads, a \in {<<>>, <<"at", "7">>}}
    \cup {h \o a : h \in {<<"last", "friday">>, <<"friday">>, <<"today">>, <<"next", "someday">>},
                   a \in AtPhrases}

IsoDates ==
    {<<"2024", "-", "03", "-", "1">>, <<"2024", "-", "13", "-", "1">>,
     <<"2147483647", "-", "03", "-", "1">>, <<"2147483648", "-", "03", "-", "1">>,
     <<"2024", "-", "03", "-", "4294967296">>}

IsoPhrases == {d \o a : d \in IsoDates, a \in {<<>>} \cup AtPhrases}

Phrases ==
    NowPhrases \cup TimePhrases \cup RelativePhrases \cup DayPhrases \cup IsoPhrases

\* tokens written before or after a phrase
Extras == {<<>>, <<"now">>, <<"x">>, <<"at">>}

(***************************************************************************)
(* Production sequences handed to the reducer directly                     *)
(***************************************************************************)
RECURSIVE Repeat(_, _)
Repeat(x, n) == IF n = 0 THEN <<>> ELSE <<x>> \o Repeat(x, n - 1)

TimeShapes == {<<"time">> \o Repeat("hms", k) : k \in 0..MaxHms}

DayShapes ==
    {<<"modifier", "weekday">>, <<"weekday">>, <<"shortcut_day">>,
     <<"modifier">>, <<"weekday", "modifier">>, <<>>}

BodyShapes ==
    {<<"now">>, <<"now", "now">>, <<"relative", "int", "quantifier">>,
     <<"relative", "int">>}
    \cup TimeShapes
    \cup {<<"day_at", "mday">> \o d \o t : d \in DayShapes, t \in {<<>>} \cup TimeShapes}
    \cup {<<"iso", "year", "month", "day">> \o t : t \in {<<>>} \cup TimeShapes}

\* every body between time_clue and EOI, and the short ones without the EOI
Shapes ==
    {<<"time_clue">> \o b \o <<"EOI">> : b \in BodyShapes}
    \cup {<<"time_clue">> \o b : b \in {x \in BodyShapes : Len(x) <= 3}}

\* the texts tried for a leaf of each rule
TextPool(rule) ==
    CASE rule = "hms"          -> {"99", "4294967296"}
      [] rule = "int"          -> {"2", "", "18446744073709551615", "18446744073709551616"}
      [] rule = "year"         -> {"2024", "-2147483648", "2147483648"}
      [] rule = "month"        -> {"13", "4294967295", "4294967296"}
      [] rule = "day"          -> {"+31", "-1"}
      [] rule = "weekday"      -> {"monday", "friday", "Friday", "someday"}
      [] rule = "shortcut_day" -> {"today", "yesterday", "TODAY", "tomorrow"}
      [] rule = "modifier"     -> {"last", "next", "Last", "previous"}
      [] rule = "quantifier"   -> {"min", "days", "Days", "hours"}
      [] OTHER                 -> {""}

RECURSIVE Fill(_)
Fill(shape) ==
    IF shape = <<>> THEN {<<>>}
    ELSE {<<Pair(Head(shape), t)>> \o r : t \in TextPool(Head(shape)), r \in Fill(Tail(shape))}

PairSeqs == UNION {Fill(sh) : sh \in Shapes}

(***************************************************************************)
(* The calls                                                               *)
(***************************************************************************)
NoResult == Err("NoResult", "")

\* the ways a phrase of n tokens is spaced: g spaces between all tokens, or
\* none or one between them and a different run g2 at one place p
Spacings(n) ==
    {<<g, 0, 0>> : g \in 0..MaxGap}
    \cup {sp \in (0..1) \X (0..n) \X (0..MaxGap) : sp[3] # sp[1]}

\* a phrase with one extra token before or after it, single-spaced
WithExtras ==
    {e \o ph : e \in Extras \ {<<>>}, ph \in Phrases}
    \cup {ph \o e : e \in Extras \ {<<>>}, ph \in Phrases}

Init ==
    /\ pc = "idle"
    /\ result = NoResult
    /\ \/ /\ via = "str"
          /\ pairs = <<>>
          /\ \/ \E ph \in Phrases : \E sp \in Spacings(Len(ph)) :
                   /\ words = ph
                   /\ input = Join(ph, sp[1], sp[2], sp[3])
             \/ \E ws \in WithExtras :
                   /\ words = ws
                   /\ input = Join(ws, 1, 0, 0)
       \/ /\ via = "pairs"
          /\ words = <<>>
          /\ input = ""
          /\ pairs \in PairSeqs

\* parse_time_clue_from_str(input)
CallFromStr ==
    /\ pc = "idle"
    /\ via = "str"
    /\ pairs' = TimeParser_parse(input).pairs
    /\ result' = parse_time_clue_from_str(input)
    /\ pc' = "done"
    /\ UNCHANGED <<via, words, input>>

\* parse_time_clue(pairs)
CallReducer ==
    /\ pc = "idle"
    /\ via = "pairs"
    /\ result' = parse_time_clue(pairs)
    /\ pc' = "done"
    /\ UNCHANGED <<via, words, input, pairs>>

Next == CallFromStr \/ CallReducer

Spec == Init /\ [][Next]_vars

(***************************************************************************)
(* What the specification expects, stated without the reducer              *)
(***************************************************************************)
Done == pc = "done"

Rules(ps) == [i \in 1..Len(ps) |-> ps[i].rule]

\* the production sequences the grammar of section 4.1 can emit
TimeTails == {<<"time">> \o Repeat("hms", k) : k \in 1..3}

GrammarBodies ==
    {<<"now">>, <<"relative", "int", "quantifier">>}
    \cup TimeTails
    \cup {<<"day_at", "mday">> \o h \o t :
            h \in {<<"modifier", "weekday">>, <<"weekday">>, <<"shortcut_day">>},
            t \in {<<>>} \cup TimeTails}
    \cup {<<"iso", "year", "month", "day">> \o t : t \in TimeTails}

GrammarShapes == {<<"time_clue">> \o b \o <<"EOI">> : b \in GrammarBodies}

BareWeekdayShape == <<"time_clue", "day_at", "mday", "weekday", "EOI">>

WeekdayOf(w) ==
    CASE w = "monday" -> "Mon" [] w = "tuesday" -> "Tue" [] w = "wednesday" -> "Wed"
      [] w = "thursday" -> "Thu" [] w = "friday" -> "Fri" [] w = "saturday" -> "Sat"
      [] w = "sunday" -> "Sun"

ModifierNames == {"last", "next"}

ModifierOf(m) == CASE m = "last" -> "Last" [] m = "next" -> "Next"

ShortcutNames == {"today", "yesterday"}

ShortcutOf(r) == CASE r = "today" -> "Today" [] r = "yesterday" -> "Yesterday"

QuantifierNames == {"min", "days"}

QuantifierOf(q) == CASE q = "min" -> "Min" [] q = "days" -> "Days"

\* the value each numeric text of the inputs denotes, as a numeral
ValueOf(t) ==
    CASE t \in {"9", "7", "43", "2", "19", "99", "13", "1", "2024", "4294967295",
                "2147483647", "-2147483648", "18446744073709551615"} -> t
      [] t = "030" -> "30"
      [] t = "007" -> "7"
      [] t = "03"  -> "3"
      [] t = "+31" -> "31"

\* the texts that are no number at all, and those too large for a field
Malformed == {"", "-1"}

TooLarge(rule) ==
    CASE rule = "int"  -> {"18446744073709551616"}
      [] rule = "year" -> {"2147483648", "4294967295", "4294967296"}
      [] OTHER         -> {"4294967296"}

NumericRules == {"hms", "int", "year", "month", "day"}

GoodNumber(rule, t) == t \notin Malformed /\ t \notin TooLarge(rule)

\* the fields f1, f2, ... of the tokens f1 : f2 : ...
FieldsOf(tw) == [k \in 1..((Len(tw) + 1) \div 2) |-> tw[2 * k - 1]]

IsTimeWords(tw) ==
    /\ Len(tw) \in {1, 3, 5}
    /\ \A k \in 1..Len(tw) : (k % 2 = 0) => tw[k] = ":"
    /\ \A k \in 1..Len(tw) : (k % 2 = 1) => AllDigits(tw[k]) /\ GoodNumber("hms", tw[k])

\* hour, minute, second of 1 to 3 fields: the omitted ones are 0
ExpectedHms(fs) ==
    <<ValueOf(fs[1]),
      IF Len(fs) >= 2 THEN ValueOf(fs[2]) ELSE "0",
      IF Len(fs) >= 3 THEN ValueOf(fs[3]) ELSE "0">>

\* the time of the tokens of an optional "at <time>"
IsAtWords(aw) == aw = <<>> \/ (Len(aw) >= 2 /\ aw[1] = "at" /\ IsTimeWords(Tail(aw)))

ExpectedTimeOpt(aw) ==
    IF aw = <<>> THEN None ELSE Some(ExpectedHms(FieldsOf(Tail(aw))))

HeadLen(ws) == IF ws[1] \in ModifierNames THEN 2 ELSE 1

IsDayWords(ws) ==
    /\ Len(ws) >= 1
    /\ Len(ws) >= HeadLen(ws)
    /\ \/ ws[1] \in ModifierNames /\ ws[2] \in WeekdayNames
       \/ ws[1] \in WeekdayNames
       \/ ws[1] \in ShortcutNames
    /\ IsAtWords(SubSeq(ws, HeadLen(ws) + 1, Len(ws)))

ExpectedDay(ws) ==
    LET t == ExpectedTimeOpt(SubSeq(ws, HeadLen(ws) + 1, Len(ws)))
    IN  IF ws[1] \in ModifierNames
        THEN RelativeDayAt(ModifierOf(ws[1]), WeekdayOf(ws[2]), t)
        ELSE IF ws[1] \in WeekdayNames THEN SameWeekDayAt(WeekdayOf(ws[1]), t)
        ELSE ShortcutDayAt(ShortcutOf(ws[1]), t)

(***************************************************************************)
(* C1                                                                      *)
(***************************************************************************)
\* C1: a day_at phrase is dispatched on its leading tokens, the trailing
\* "at <time>" optional in all three forms: modifier + weekday gives
\* RelativeDayAt, a bare weekday gives SameWeekDayAt (also with no time, for
\* every weekday), a shortcut day gives ShortcutDayAt.
C1_DayAtDispatch ==
    (Done /\ via = "str" /\ IsDayWords(words)) => result = Ok(ExpectedDay(words))

\* the part of C1 the reducer does satisfy: every day_at phrase but the bare
\* weekday without a time
C1_DayAtDispatchButBareWeekday ==
    (Done /\ via = "str" /\ IsDayWords(words) /\ Rules(pairs) # BareWeekdayShape)
        => result = Ok(ExpectedDay(words))

(***************************************************************************)
(* C8                                                                      *)
(***************************************************************************)
\* C8: for every production sequence the grammar can emit the reducer never
\* returns UnexpectedNonMatchingPattern; that error is returned only for
\* sequences the grammar cannot produce.
C8_GrammarReducerSync ==
    (Done /\ Rules(pairs) \in GrammarShapes) => result # UnexpectedNonMatchingPattern

\* the grammar model emits only sequences of section 4.1
GrammarEmitsGrammarShapes ==
    (Done /\ via = "str" /\ result # PestError) => Rules(pairs) \in GrammarShapes

\* the reducer has a case for every sequence of the grammar but one
C8_SyncButBareWeekday ==
    (Done /\ result # PestError)
        => (Rules(pairs) \in GrammarShapes \ {BareWeekdayShape}
                <=> result # UnexpectedNonMatchingPattern)

(***************************************************************************)
(* C2                                                                      *)
(***************************************************************************)
LeafTexts(ps, rule) ==
    LET sel == SelectSeq(ps, LAMBDA p : p.rule = rule)
    IN  [i \in 1..Len(sel) |-> sel[i].str]

HasRule(ps, rule) == \E i \in 1..Len(ps) : ps[i].rule = rule

IsIsoWords(ws) ==
    /\ Len(ws) >= 7
    /\ ws[2] = "-" /\ ws[4] = "-"
    /\ AllDigits(ws[1]) /\ GoodNumber("year", ws[1])
    /\ AllDigits(ws[3]) /\ GoodNumber("month", ws[3])
    /\ AllDigits(ws[5]) /\ GoodNumber("day", ws[5])
    /\ IsAtWords(SubSeq(ws, 6, Len(ws)))

TopTimeShapes == {<<"time_clue">> \o t \o <<"EOI">> : t \in TimeTails}

AllGood(ps, rule) == \A i \in 1..Len(ps) : ps[i].rule = rule => GoodNumber(rule, ps[i].str)

\* C2: a time phrase of one, two or three fields gives Time(h, m, s), every
\* written field with the value of its digits and every omitted one 0; the
\* time of an "at <time>" sub-phrase is filled the same way.
C2_FieldDefaulting ==
    Done =>
       /\ (via = "str" /\ IsTimeWords(words))
            => result = Ok(Time(ExpectedHms(FieldsOf(words))))
       /\ (via = "pairs" /\ Rules(pairs) \in TopTimeShapes /\ AllGood(pairs, "hms"))
            => result = Ok(Time(ExpectedHms(LeafTexts(pairs, "hms"))))
       /\ (via = "str" /\ IsDayWords(words) /\ Len(words) > HeadLen(words))
            => /\ result.ok
               /\ result.val.time = Some(ExpectedHms(LeafTexts(pairs, "hms")))
               /\ result.val.time = ExpectedTimeOpt(SubSeq(words, HeadLen(words) + 1, Len(words)))
       /\ (via = "str" /\ IsIsoWords(words))
            => /\ result.ok
               /\ result.val.hms = ExpectedHms(FieldsOf(SubSeq(words, 7, Len(words))))

C2_Witness ==
    /\ Done /\ via = "str"
    /\ words = <<"9", ":", "030">>
    /\ result = Ok(Time(<<"9", "30", "0">>))

(***************************************************************************)
(* C6                                                                      *)
(***************************************************************************)
HasNumericLeaf(ps) == \E i \in 1..Len(ps) : ps[i].rule \in NumericRules

AllNumbersGood(ps) ==
    \A i \in 1..Len(ps) : ps[i].rule \in NumericRules => GoodNumber(ps[i].rule, ps[i].str)

NameRules == {"weekday", "shortcut_day", "modifier", "quantifier"}

Vocabulary(rule) ==
    CASE rule = "weekday"      -> WeekdayNames
      [] rule = "shortcut_day" -> ShortcutNames
      [] rule = "modifier"     -> ModifierNames
      [] rule = "quantifier"   -> QuantifierNames

AllNamesKnown(ps) ==
    \A i \in 1..Len(ps) : ps[i].rule \in NameRules => ps[i].str \in Vocabulary(ps[i].rule)

TimeOf(ps) == IF HasRule(ps, "time") THEN Some(ExpectedHms(LeafTexts(ps, "hms"))) ELSE None

\* the numeric fields of a descriptor are the values of the numeric leaves
NumbersExact(ps, clue) ==
    CASE clue.variant = "Time" -> clue.hms = ExpectedHms(LeafTexts(ps, "hms"))
      [] clue.variant = "Relative" -> clue.n = ValueOf(LeafTexts(ps, "int")[1])
      [] clue.variant = "ISO" ->
            /\ clue.ymd = <<ValueOf(LeafTexts(ps, "year")[1]),
                            ValueOf(LeafTexts(ps, "month")[1]),
                            ValueOf(LeafTexts(ps, "day")[1])>>
            /\ clue.hms = ExpectedHms(LeafTexts(ps, "hms"))
      [] clue.variant = "Now" -> TRUE
      [] OTHER -> clue.time = TimeOf(ps)

\* C6: no range validation and no unit conversion: a numeric leaf within the
\* width of its field (u32 for month, day, hour, minute, second; usize for a
\* relative count; i32 for the year) is accepted with exactly its value, and
\* one beyond the width fails with ParseInt: no wrapping, no clamping.
C6_NumericWidths ==
    Done =>
       /\ (Rules(pairs) \in GrammarShapes /\ ~AllNumbersGood(pairs))
            => ~result.ok /\ result.val.kind = "ParseInt"
       /\ (Rules(pairs) \in GrammarShapes /\ HasNumericLeaf(pairs)
             /\ AllNumbersGood(pairs) /\ AllNamesKnown(pairs)) => result.ok
       /\ result.ok => NumbersExact(pairs, result.val)

C6_Witness ==
    /\ Done /\ via = "str"
    /\ words = <<"2024", "-", "13", "-", "1", "at", "7", ":", "43", ":", "4294967295">>
    /\ result = Ok(ISO(<<"2024", "13", "1">>, <<"7", "43", "4294967295">>))

C6_WitnessOverflow ==
    /\ Done /\ via = "str"
    /\ words = <<"today", "at", "4294967296">>
    /\ result = ParseInt("PosOverflow")

(***************************************************************************)
(* C7                                                                      *)
(***************************************************************************)
LowerAlpha == "abcdefghijklmnopqrstuvwxyz"

UpperAlpha == "ABCDEFGHIJKLMNOPQRSTUVWXYZ"

LowerChar(c) ==
    IF \E k \in 1..26 : CharAt(UpperAlpha, k) = c
    THEN CharAt(LowerAlpha, CHOOSE k \in 1..26 : CharAt(UpperAlpha, k) = c)
    ELSE c

RECURSIVE ToLower(_)
ToLower(s) == IF Len(s) = 0 THEN "" ELSE LowerChar(CharAt(s, 1)) \o ToLower(Tail(s))

Conversion(rule, t) ==
    CASE rule = "weekday"      -> weekday_from(t)
      [] rule = "shortcut_day" -> shortcut_day_from(t)
      [] rule = "modifier"     -> modifier_from(t)
      [] rule = "quantifier"   -> quantifier_from(t)

\* C7: every enumerated value is converted case-insensitively: an upper/lower
\* case variant of a vocabulary name converts to the value of its lower-case
\* spelling.
C7_CaseInsensitive ==
    Done => \A i \in 1..Len(pairs) :
               (pairs[i].rule \in NameRules
                  /\ ToLower(pairs[i].str) \in Vocabulary(pairs[i].rule))
               => /\ Conversion(pairs[i].rule, pairs[i].str).ok
                  /\ Conversion(pairs[i].rule, pairs[i].str)
                        = Conversion(pairs[i].rule, ToLower(pairs[i].str))

(***************************************************************************)
(* C3                                                                      *)
(***************************************************************************)
LeafRules == NumericRules \cup NameRules

Leaves(ps) == SelectSeq(ps, LAMBDA p : p.rule \in LeafRules)

SingleSpaced(ws) == Join(ws, 1, 0, 0)

\* a production sequence with the text of every composite rule (the spans
\* that hold the spaces) blanked
WithoutSpans(ps) ==
    [i \in 1..Len(ps) |-> IF ps[i].rule \in LeafRules THEN ps[i] ELSE Pair(ps[i].rule, "")]

\* C3: the number of spaces between adjacent tokens (none, one, many) does
\* not change the result; count, "min", "ago" with count 2 give
\* Relative(2, Min) in every spacing; the leaves handed to the reducer are
\* those of the single-spaced phrase.
C3_WhitespaceInsensitive ==
    (Done /\ via = "str") =>
       /\ result = parse_time_clue_from_str(SingleSpaced(words))
       /\ Leaves(pairs) = Leaves(TimeParser_parse(SingleSpaced(words)).pairs)
       /\ words = <<"2", "min", "ago">> => result = Ok(Relative("2", "Min"))
       /\ result # PestError => result = parse_time_clue(WithoutSpans(pairs))

C3_Witness ==
    /\ Done /\ via = "str"
    /\ input = "2  min ago"
    /\ result = Ok(Relative("2", "Min"))

(***************************************************************************)
(* C4                                                                      *)
(***************************************************************************)
UnknownKind(rule) ==
    CASE rule = "weekday"      -> "UnknownWeekday"
      [] rule = "shortcut_day" -> "UnknownShortcutDay"
      [] rule = "modifier"     -> "UnknownModifier"
      [] rule = "quantifier"   -> "UnknownQuantifier"

UnknownName(ps, i) == ps[i].rule \in NameRules /\ ps[i].str \notin Vocabulary(ps[i].rule)

\* a time written with four fields or more: the fourth is left over
Overlong(ws) ==
    /\ Len(ws) >= 7
    /\ \A k \in 0..6 : IF k % 2 = 0 THEN AllDigits(ws[Len(ws) - k]) /\ Len(ws[Len(ws) - k]) > 0
                       ELSE ws[Len(ws) - k] = ":"

AllVocabulary == WeekdayNames \cup ShortcutNames \cup ModifierNames \cup QuantifierNames

\* a token that is a name of no vocabulary, nor another word of the grammar
StrayName(w) ==
    /\ Len(w) > 0
    /\ ~AllDigits(w)
    /\ w \notin AllVocabulary \cup {"now", "at", "ago", ":", "-"}

C4_WitnessTrailing ==
    /\ Done /\ via = "str"
    /\ input = "now x"
    /\ result = PestError

(***************************************************************************)
(* C5                                                                      *)
(***************************************************************************)
\* C5: an iso phrase with year, month, day and a time of 1 to 3 fields gives
\* ISO((year, month, day), (h, m, s)), the date as written and the time as
\* the bare time rule gives it; an iso sequence without a time that reduces
\* to a Time is an error, never a descriptor without a time.
C5_IsoComposition ==
    Done =>
       /\ (via = "str" /\ IsIsoWords(words))
            => result = Ok(ISO(<<ValueOf(words[1]), ValueOf(words[3]), ValueOf(words[5])>>,
                               ExpectedHms(FieldsOf(SubSeq(words, 7, Len(words))))))
       /\ (result.ok /\ result.val.variant = "ISO")
            => /\ HasRule(pairs, "time")
               /\ Len(LeafTexts(pairs, "hms")) \in 1..3
               /\ NumbersExact(pairs, result.val)
               /\ parse_time_hms(SelectSeq(pairs, LAMBDA p : p.rule = "hms"))
                     = Ok(Time(result.val.hms))
       /\ (Len(pairs) >= 2 /\ pairs[2].rule = "iso" /\ Rules(pairs) \notin GrammarShapes)
            => ~result.ok
       /\ (via = "pairs" /\ Len(pairs) >= 2 /\ pairs[2].rule = "iso"
             /\ Rules(pairs) \notin GrammarShapes)
            => result = UnexpectedNonMatchingPattern

C5_Witness ==
    /\ Done /\ via = "str"
    /\ words = <<"2024", "-", "03", "-", "1", "at", "7", ":", "43">>
    /\ result = Ok(ISO(<<"2024", "3", "1">>, <<"7", "43", "0">>))

(***************************************************************************)
(* C9                                                                      *)
(***************************************************************************)
DayVariants == {"RelativeDayAt", "SameWeekDayAt", "ShortcutDayAt"}

\* the bare time rule on the hms leaves of a sequence
BareTime(ps) ==
    parse_time_clue(<<Pair("time_clue", ""), Pair("time", "")>>
                    \o SelectSeq(ps, LAMBDA p : p.rule = "hms")
                    \o <<Pair("EOI", "")>>)

\* C9: in a descriptor of a day_at sequence the time is None exactly when the
\* sequence has no time production, and otherwise Some of the triple the bare
\* time rule gives for the same hms leaves; a time followed by no hms leaf or
\* by more than three fails with UnexpectedNonMatchingPattern.
C9_OptionalTime ==
    Done =>
       /\ (result.ok /\ result.val.variant \in DayVariants)
            => /\ result.val.time = None <=> ~HasRule(pairs, "time")
               /\ HasRule(pairs, "time")
                    => /\ BareTime(pairs).ok
                       /\ result.val.time = Some(BareTime(pairs).val.hms)
                       /\ result.val.time = Some(ExpectedHms(LeafTexts(pairs, "hms")))
       /\ (Len(pairs) >= 2 /\ pairs[2].rule = "day_at" /\ HasRule(pairs, "time")
             /\ Len(LeafTexts(pairs, "hms")) \notin 1..3)
            => result = UnexpectedNonMatchingPattern

C9_Witness ==
    /\ Done /\ via = "str"
    /\ words = <<"friday", "at", "7", ":", "43">>
    /\ result = Ok(SameWeekDayAt("Fri", Some(<<"7", "43", "0">>)))

C9_WitnessTooManyFields ==
    /\ Done /\ via = "pairs"
    /\ Rules(pairs) = <<"time_clue", "day_at", "mday", "shortcut_day", "time",
                        "hms", "hms", "hms", "hms", "EOI">>
    /\ AllNumbersGood(pairs) /\ AllNamesKnown(pairs)
    /\ result = UnexpectedNonMatchingPattern

(***************************************************************************)
(* C10                                                                     *)
(***************************************************************************)
BadLeaf(ps, i) ==
    \/ ps[i].rule \in NumericRules /\ ~GoodNumber(ps[i].rule, ps[i].str)
    \/ UnknownName(ps, i)

\* the order in which the leaves are converted: the fields of the time first,
\* then the other leaves as they stand
ConversionOrder(ps) ==
    LET idx == [i \in 1..Len(ps) |-> i]
    IN  SelectSeq(idx, LAMBDA i : ps[i].rule = "hms")
        \o SelectSeq(idx, LAMBDA i : ps[i].rule \in LeafRules \ {"hms"})

FirstBad(ps) ==
    LET ord == ConversionOrder(ps)
        k == CHOOSE j \in 1..Len(ord) :
                BadLeaf(ps, ord[j]) /\ \A l \in 1..(j - 1) : ~BadLeaf(ps, ord[l])
    IN  ord[k]

SomeBad(ps) == \E i \in 1..Len(ps) : BadLeaf(ps, i)

\* C10: all or nothing, with a fixed precedence: when a leaf conversion fails
\* no descriptor is returned, and the error is that of the first failing
\* conversion, the time fields (hour, minute, second) coming before modifier,
\* weekday, shortcut day, year, month and day, and the count before the unit.
C10_ErrorPrecedence ==
    Done =>
       /\ (Rules(pairs) \in GrammarShapes /\ SomeBad(pairs)) => ~result.ok
       /\ (Rules(pairs) \in GrammarShapes \ {BareWeekdayShape} /\ SomeBad(pairs))
            => LET i == FirstBad(pairs)
               IN  IF pairs[i].rule \in NumericRules
                   THEN result.val.kind = "ParseInt"
                   ELSE result = Err(UnknownKind(pairs[i].rule), pairs[i].str)

C10_Witness ==
    /\ Done /\ via = "pairs"
    /\ pairs = <<Pair("time_clue", ""), Pair("day_at", ""), Pair("mday", ""),
                 Pair("modifier", "previous"), Pair("weekday", "someday"),
                 Pair("time", ""), Pair("hms", "99"), Pair("hms", "4294967296"),
                 Pair("EOI", "")>>
    /\ result = ParseInt("PosOverflow")

====
